---- MODULE Spec2Model ----
(***************************************************************************)
(* A model of the request-to-SQL engine of rust-postgres-rest:             *)
(*   - Config and the table stats cache actor (rust-postgres-rest/src/     *)
(*     lib.rs),                                                            *)
(*   - ForeignKeyReference::from_query_columns (src/queries/               *)
(*     foreign_keys.rs),                                                   *)
(*   - insert_into_table and its helpers (src/queries/insert_into_table.rs)*)
(*   - from_http_request of QueryParamsSelect, QueryParamsInsert and       *)
(*     QueryParamsUpdate (src/queries/query_types.rs).                     *)
(* Each part has its own specification (SpecCache, SpecFk, SpecInsert,     *)
(* SpecParse); the variables of the other parts stay at their initial      *)
(* values.                                                                 *)
(***************************************************************************)
EXTENDS Integers, Sequences, FiniteSets, TLC

VARIABLES
  \* ---- Config (lib.rs) and the StatsCache actor
  is_cache_table_stats,  \* Config.is_cache_table_stats
  stats_cache_addr,      \* Config.stats_cache_addr: "None" or "Some"
  mailbox,               \* messages sent to the StatsCache actor, in order
  handling,              \* the messages the actor is handling right now
  cache,                 \* table -> -1 (no entry) or the generation it was cached in
  generation,            \* number of completed resets
  inflight,              \* metadata fetches in flight for the cache
  fetch_count,           \* table -> fetches the cache has started since the last reset
  fetched_in_gen,        \* table -> a fetch succeeded since the last reset
  reqs,                  \* request id -> the state of its get(table)
  reset_log,             \* the outcome of every Config::reset_cache call, in order
  \* ---- ForeignKeyReference::from_query_columns (foreign_keys.rs)
  fk_table,              \* argument table
  fk_columns_in,         \* argument columns
  fetch_fails,           \* the tables whose get_column_stats fails
  fk_pc,                 \* "call" before the call, "done" after it
  fk_result,             \* the value from_query_columns returned
  fk_stack,              \* the activations of from_query_columns, innermost last
  fk_depth,              \* the most activations there were at one time
  fk_steps,              \* the steps the activations have taken so far
  \* ---- insert_into_table (insert_into_table.rs)
  query_params,          \* the QueryParamsInsert of the request
  ins_pc,                \* position in insert_into_table
  loop_i,                \* i: index of the next row of the batching loop
  batch_rows,            \* the rows pushed since the last batch insert
  total_num_rows_affected,
  total_rows_returned,
  db_log,                \* the statements handed to the database, in order
  db_table,              \* the rows the database holds because of this request
  ins_result,            \* what insert_into_table returned
  \* ---- from_http_request of the three descriptors (query_types.rs)
  request,               \* the request: method, table segment, query string, body
  parse_pc,              \* "call" before from_http_request, "done" after it
  parse_result           \* the Result from_http_request returned

cacheVars == <<is_cache_table_stats, stats_cache_addr, mailbox, handling, cache,
               generation, inflight, fetch_count, fetched_in_gen, reqs, reset_log>>

fkVars ==
  <<fk_table, fk_columns_in, fetch_fails, fk_pc, fk_result, fk_stack, fk_depth, fk_steps>>

insVars == <<query_params, ins_pc, loop_i, batch_rows, total_num_rows_affected,
             total_rows_returned, db_log, db_table, ins_result>>

parseVars == <<request, parse_pc, parse_result>>

vars == <<cacheVars, fkVars, insVars, parseVars>>

(***************************************************************************)
(* Bounds                                                                  *)
(***************************************************************************)
MaxRequests == 2   \* concurrent get(table) requests
MaxResets == 2     \* calls of Config::reset_cache
MaxColumns == 3    \* length of the columns argument of from_query_columns
MaxRows == 4       \* rows of one insert request

(***************************************************************************)
(* Part A: Config and the table stats cache                                *)
(***************************************************************************)
CacheTables == {"a_table", "b_table"}
Requests == 1..MaxRequests

NoEntry == -1
FetchError == -2

IdleReq == [pc |-> "idle", table |-> "-", start_gen |-> 0, result |-> NoEntry]

\* No call of from_query_columns is modelled.
FkIdle ==
  /\ fk_table = "-"
  /\ fk_columns_in = <<>>
  /\ fetch_fails = {}
  /\ fk_pc = "idle"
  /\ fk_result = [kind |-> "-", refs |-> <<>>, err |-> "-"]
  /\ fk_stack = <<>>
  /\ fk_depth = 0
  /\ fk_steps = 0

None == [some |-> FALSE, v |-> <<>>]
NoneStr == [some |-> FALSE, v |-> ""]
Some(x) == [some |-> TRUE, v |-> x]

NoResult == [kind |-> "-", rows |-> <<>>, num_rows |-> 0, err |-> "-"]

\* No call of insert_into_table is modelled.
InsertIdle ==
  /\ query_params = [rows |-> <<>>, conflict_action |-> NoneStr,
                     conflict_target |-> None, returning_columns |-> None]
  /\ ins_pc = "idle"
  /\ loop_i = 0
  /\ batch_rows = <<>>
  /\ total_num_rows_affected = 0
  /\ total_rows_returned = <<>>
  /\ db_log = <<>>
  /\ db_table = <<>>
  /\ ins_result = NoResult

\* No call of from_http_request is modelled.
ParseIdle ==
  /\ request = [method |-> "-"]
  /\ parse_pc = "idle"
  /\ parse_result = [kind |-> "-"]

\* What an action of the cache leaves alone.
CacheOnly == UNCHANGED <<fkVars, insVars, parseVars>>

\* Config::default and Config::new: caching off, no cache handle.
ConfigDefault ==
  /\ is_cache_table_stats = FALSE
  /\ stats_cache_addr = "None"

\* The config as constructed, and a cache actor that has handled nothing.
CacheIdle ==
  /\ ConfigDefault
  /\ mailbox = <<>>
  /\ handling = {}
  /\ cache = [t \in CacheTables |-> NoEntry]
  /\ generation = 0
  /\ inflight = {}
  /\ fetch_count = [t \in CacheTables |-> 0]
  /\ fetched_in_gen = [t \in CacheTables |-> FALSE]
  /\ reqs = [r \in Requests |-> IdleReq]
  /\ reset_log = <<>>

InitCache ==
  /\ CacheIdle
  /\ FkIdle
  /\ InsertIdle
  /\ ParseIdle

\* stats_cache::initialize_stats_cache(config): starts the StatsCache actor and
\* stores its address in the config; the handle may fail to be established.
initialize_stats_cache ==
  \E established \in BOOLEAN :
    stats_cache_addr' = IF established THEN "Some" ELSE stats_cache_addr

\* Config::cache_table_stats
cache_table_stats ==
  /\ is_cache_table_stats' = TRUE
  /\ initialize_stats_cache
  /\ UNCHANGED <<mailbox, handling, cache, generation, inflight, fetch_count,
                 fetched_in_gen, reqs, reset_log>>
  /\ CacheOnly

\* is_cache_table_stats is a pub field: the embedding program may clear it.
set_is_cache_table_stats ==
  /\ is_cache_table_stats = TRUE
  /\ is_cache_table_stats' = FALSE
  /\ UNCHANGED <<stats_cache_addr, mailbox, handling, cache, generation, inflight,
                 fetch_count, fetched_in_gen, reqs, reset_log>>
  /\ CacheOnly

ResetMsg(n) == [type |-> "ResetCache", req |-> n, table |-> "-"]
FetchMsg(r, t) == [type |-> "FetchStatsForTable", req |-> r, table |-> t]

\* reset_cache with the two checks in the wrong order: the handle is matched
\* before the flag is looked at.
reset_cache_handle_first ==
  /\ Len(reset_log) < MaxResets
  /\ IF stats_cache_addr = "Some"
       THEN /\ mailbox' = Append(mailbox, ResetMsg(Len(reset_log) + 1))
            /\ reset_log' = Append(reset_log, "sent")
       ELSE IF ~is_cache_table_stats
         THEN /\ reset_log' = Append(reset_log, "TABLE_STATS_CACHE_NOT_ENABLED")
              /\ UNCHANGED mailbox
         ELSE /\ reset_log' = Append(reset_log, "TABLE_STATS_CACHE_NOT_INITIALIZED")
              /\ UNCHANGED mailbox
  /\ UNCHANGED <<is_cache_table_stats, stats_cache_addr, handling, cache, generation,
                 inflight, fetch_count, fetched_in_gen, reqs>>
  /\ CacheOnly

\* Config::reset_cache
reset_cache ==
  /\ Len(reset_log) < MaxResets
  /\ IF ~is_cache_table_stats
       THEN /\ reset_log' = Append(reset_log, "TABLE_STATS_CACHE_NOT_ENABLED")
            /\ UNCHANGED mailbox
       ELSE IF stats_cache_addr = "Some"
         THEN /\ mailbox' = Append(mailbox, ResetMsg(Len(reset_log) + 1))
              /\ reset_log' = Append(reset_log, "sent")
         ELSE /\ reset_log' = Append(reset_log, "TABLE_STATS_CACHE_NOT_INITIALIZED")
              /\ UNCHANGED mailbox
  /\ UNCHANGED <<is_cache_table_stats, stats_cache_addr, handling, cache, generation,
                 inflight, fetch_count, fetched_in_gen, reqs>>
  /\ CacheOnly

\* get(table) of the stats cache, as called by a request: with caching
\* enabled the request is a message to the cache actor; otherwise the
\* metadata is fetched directly from the database, which may fail, and
\* nothing is cached.
get(r, t) ==
  /\ reqs[r].pc = "idle"
  /\ IF is_cache_table_stats /\ stats_cache_addr = "Some"
       THEN /\ mailbox' = Append(mailbox, FetchMsg(r, t))
            /\ reqs' = [reqs EXCEPT ![r] = [pc |-> "waiting", table |-> t,
                                            start_gen |-> generation,
                                            result |-> NoEntry]]
       ELSE /\ \E ok \in BOOLEAN :
                 reqs' = [reqs EXCEPT ![r] =
                            [pc |-> "done", table |-> t, start_gen |-> generation,
                             result |-> IF ok THEN generation ELSE FetchError]]
            /\ UNCHANGED mailbox
  /\ UNCHANGED <<is_cache_table_stats, stats_cache_addr, handling, cache, generation,
                 inflight, fetch_count, fetched_in_gen, reset_log>>
  /\ CacheOnly

\* An actor that takes the next message while it is still handling one.
ActorAlwaysIdle == TRUE

\* The actor takes the next message only when it is handling none.
ActorIdle == handling = {}

\* The actor takes a FetchStatsForTable message: a hit is answered from the
\* cache, a miss starts the one metadata fetch for the table.
handle_fetch ==
  /\ mailbox # <<>>
  /\ ActorIdle
  /\ Head(mailbox).type = "FetchStatsForTable"
  /\ LET msg == Head(mailbox)
         t == msg.table
     IN /\ mailbox' = Tail(mailbox)
        /\ IF cache[t] # NoEntry
             THEN /\ reqs' = [reqs EXCEPT ![msg.req].pc = "done",
                                          ![msg.req].result = cache[t]]
                  /\ UNCHANGED <<handling, inflight, fetch_count>>
             ELSE /\ handling' = handling \cup {msg}
                  /\ inflight' = inflight \cup
                       {[table |-> t, req |-> msg.req, gen |-> generation]}
                  /\ fetch_count' = [fetch_count EXCEPT ![t] = @ + 1]
                  /\ UNCHANGED reqs
  /\ UNCHANGED <<is_cache_table_stats, stats_cache_addr, cache, generation,
                 fetched_in_gen, reset_log>>
  /\ CacheOnly

\* A metadata fetch of the cache ends: on success the stats are cached and
\* returned to the request, on failure the request gets the error.
fetch_end ==
  \E f \in inflight, ok \in BOOLEAN :
    /\ inflight' = inflight \ {f}
    /\ handling' = handling \ {FetchMsg(f.req, f.table)}
    /\ IF ok
         THEN /\ cache' = [cache EXCEPT ![f.table] = f.gen]
              /\ fetched_in_gen' = [fetched_in_gen EXCEPT ![f.table] = TRUE]
              /\ reqs' = [reqs EXCEPT ![f.req].pc = "done", ![f.req].result = f.gen]
         ELSE /\ reqs' = [reqs EXCEPT ![f.req].pc = "done",
                                      ![f.req].result = FetchError]
              /\ UNCHANGED <<cache, fetched_in_gen>>
    /\ UNCHANGED <<is_cache_table_stats, stats_cache_addr, mailbox, generation,
                   fetch_count, reset_log>>
    /\ CacheOnly

\* The actor takes a ResetCache message: the reset begins.
handle_reset ==
  /\ mailbox # <<>>
  /\ ActorIdle
  /\ Head(mailbox).type = "ResetCache"
  /\ mailbox' = Tail(mailbox)
  /\ handling' = handling \cup {Head(mailbox)}
  /\ UNCHANGED <<is_cache_table_stats, stats_cache_addr, cache, generation, inflight,
                 fetch_count, fetched_in_gen, reqs, reset_log>>
  /\ CacheOnly

\* The reset ends: every cached entry is cleared and a new generation begins.
reset_end ==
  \E m \in handling :
    /\ m.type = "ResetCache"
    /\ handling' = handling \ {m}
    /\ cache' = [t \in CacheTables |-> NoEntry]
    /\ fetched_in_gen' = [t \in CacheTables |-> FALSE]
    /\ fetch_count' = [t \in CacheTables |-> 0]
    /\ generation' = generation + 1
    /\ UNCHANGED <<is_cache_table_stats, stats_cache_addr, mailbox, inflight,
                   reqs, reset_log>>
    /\ CacheOnly

NextCache ==
  \/ cache_table_stats
  \/ set_is_cache_table_stats
  \/ reset_cache
  \/ \E r \in Requests, t \in CacheTables : get(r, t)
  \/ handle_fetch
  \/ fetch_end
  \/ handle_reset
  \/ reset_end

SpecCache == InitCache /\ [][NextCache]_vars

(***************************************************************************)
(* Claims about Config and the table stats cache                           *)
(***************************************************************************)
LastReset == reset_log'[Len(reset_log')]

\* C1: every call of Config::reset_cache fails with
\* TABLE_STATS_CACHE_NOT_ENABLED when is_cache_table_stats is false (whatever
\* the handle is), fails with TABLE_STATS_CACHE_NOT_INITIALIZED when caching
\* is enabled and stats_cache_addr is None, and sends ResetCache only when
\* caching is enabled and the handle is present; a failing call sends no
\* message and leaves the cache contents unchanged.
C1_ResetCacheOutcome ==
  [][Len(reset_log') > Len(reset_log) =>
       /\ ~is_cache_table_stats =>
            /\ LastReset = "TABLE_STATS_CACHE_NOT_ENABLED"
            /\ mailbox' = mailbox
            /\ cache' = cache
       /\ (is_cache_table_stats /\ stats_cache_addr = "None") =>
            /\ LastReset = "TABLE_STATS_CACHE_NOT_INITIALIZED"
            /\ mailbox' = mailbox
            /\ cache' = cache
       /\ (is_cache_table_stats /\ stats_cache_addr = "Some") =>
            /\ LastReset = "sent"
            /\ Len(mailbox') = Len(mailbox) + 1
            /\ mailbox'[Len(mailbox')].type = "ResetCache"]_vars

\* C1 witness: a reset that was sent, then a reset refused as not enabled
\* although the handle is present and the cache holds an entry.
C1_Witness ==
  /\ reset_log = <<"sent", "TABLE_STATS_CACHE_NOT_ENABLED">>
  /\ stats_cache_addr = "Some"
  /\ \E t \in CacheTables : cache[t] # NoEntry

InflightFor(t) == {f \in inflight : f.table = t}

RunningResets == {m \in handling : m.type = "ResetCache"}

Alphabet == <<".", "b", "d", "f", "g", "i", "n", "p", "q", "r", "s", "t", "x", "y">>

CharCode(c) == CHOOSE i \in 1..Len(Alphabet) : Alphabet[i] = c

\* Ord for String: byte-wise lexicographic, a proper prefix is smaller.
RECURSIVE StrLess(_, _)
StrLess(a, b) ==
  IF b = <<>> THEN FALSE
  ELSE IF a = <<>> THEN TRUE
  ELSE IF Head(a) = Head(b) THEN StrLess(Tail(a), Tail(b))
  ELSE CharCode(Head(a)) < CharCode(Head(b))

\* col.contains('.')
contains_dot(col) == \E i \in 1..Len(col) : col[i] = "."

\* col.find('.'): the 0-based index of the first '.', or -1 for None.
find_dot(col) ==
  IF contains_dot(col)
    THEN (CHOOSE i \in 1..Len(col) :
            col[i] = "." /\ \A j \in 1..(i - 1) : col[j] # ".") - 1
    ELSE 0 - 1

\* A filter that keeps every column, dotted or not.
is_fk_column_any(col) == TRUE

\* The filter_map closure that collects fk_columns: keeps the columns that
\* contain '.'.
is_fk_column(col) == contains_dot(col)

\* Insertion of one string into a sorted vector.
RECURSIVE insert_sorted(_, _)
insert_sorted(x, sorted) ==
  IF sorted = <<>> THEN <<x>>
  ELSE IF StrLess(Head(sorted), x) THEN <<Head(sorted)>> \o insert_sorted(x, Tail(sorted))
  ELSE <<x>> \o sorted

\* A vector left in the order of the request.
not_sorted(v) == v

\* Vec::sort_unstable
RECURSIVE sort_unstable(_)
sort_unstable(v) ==
  IF v = <<>> THEN <<>> ELSE insert_sorted(Head(v), sort_unstable(Tail(v)))

\* Vec::dedup: removes consecutive repeated elements.
RECURSIVE dedup(_)
dedup(v) ==
  IF Len(v) < 2 THEN v
  ELSE IF v[1] = v[2] THEN dedup(Tail(v))
  ELSE <<v[1]>> \o dedup(Tail(v))

EmptyMap == [k \in {} |-> <<>>]

\* A grouping that hands the whole column on as the child column.
RECURSIVE group_columns_whole(_, _)
group_columns_whole(fk_columns, grouped) ==
  IF fk_columns = <<>> THEN grouped
  ELSE LET col == Head(fk_columns)
           dot_index == find_dot(col)
           parent_col_name == SubSeq(col, 1, dot_index)
           child_column == col
       IN IF dot_index < 0
            THEN group_columns_whole(Tail(fk_columns), grouped)
            ELSE group_columns_whole(Tail(fk_columns),
                   [k \in DOMAIN grouped \cup {parent_col_name} |->
                      IF k = parent_col_name
                        THEN IF k \in DOMAIN grouped
                               THEN <<Append(grouped[k][1], child_column),
                                      Append(grouped[k][2], col)>>
                               ELSE <<(<<child_column>>), (<<col>>)>>
                        ELSE grouped[k]])

\* The loop that fills fk_columns_grouped: parent column -> (child columns,
\* original references), each in the order of fk_columns.
RECURSIVE group_columns(_, _)
group_columns(fk_columns, grouped) ==
  IF fk_columns = <<>> THEN grouped
  ELSE LET col == Head(fk_columns)
           dot_index == find_dot(col)
           parent_col_name == SubSeq(col, 1, dot_index)
           child_column == SubSeq(col, dot_index + 1, Len(col))
       IN IF dot_index < 0
            THEN group_columns(Tail(fk_columns), grouped)
            ELSE group_columns(Tail(fk_columns),
                   [k \in DOMAIN grouped \cup {parent_col_name} |->
                      IF k = parent_col_name
                        THEN IF k \in DOMAIN grouped
                               THEN <<Append(grouped[k][1], child_column),
                                      Append(grouped[k][2], col)>>
                               ELSE <<(<<child_column>>), (<<col>>)>>
                        ELSE grouped[k]])

Stat(name, is_fk, referred_table, referred_columns) ==
  [column_name |-> name, is_foreign_key |-> is_fk,
   foreign_key_table |-> referred_table, foreign_key_columns |-> referred_columns]

\* The schema of the doc examples: a_table.f (a_foreign_key) references
\* b_table.id, a_table.g (another_foreign_key) references c_table.id,
\* c_table.n (nested_fk) references d_table.id and c_table.d
\* (different_nested_fk) references e_table.id; i, b, t, s, x, y are plain.
\* Three more tables have foreign keys that form a cycle: p_table.p references
\* p_table.id, q_table.r references r_table.id and r_table.q references
\* q_table.id.
Schema ==
  [a_table |-> << Stat(<<"i">>, FALSE, "None", "None"),
                  Stat(<<"f">>, TRUE, "b_table", "id"),
                  Stat(<<"g">>, TRUE, "c_table", "id"),
                  Stat(<<"b">>, FALSE, "None", "None") >>,
   b_table |-> << Stat(<<"i">>, FALSE, "None", "None"),
                  Stat(<<"t">>, FALSE, "None", "None") >>,
   c_table |-> << Stat(<<"i">>, FALSE, "None", "None"),
                  Stat(<<"n">>, TRUE, "d_table", "id"),
                  Stat(<<"d">>, TRUE, "e_table", "id"),
                  Stat(<<"s">>, FALSE, "None", "None") >>,
   d_table |-> << Stat(<<"i">>, FALSE, "None", "None"),
                  Stat(<<"x">>, FALSE, "None", "None") >>,
   e_table |-> << Stat(<<"i">>, FALSE, "None", "None"),
                  Stat(<<"y">>, FALSE, "None", "None") >>,
   p_table |-> << Stat(<<"i">>, FALSE, "None", "None"),
                  Stat(<<"p">>, TRUE, "p_table", "id") >>,
   q_table |-> << Stat(<<"i">>, FALSE, "None", "None"),
                  Stat(<<"r">>, TRUE, "r_table", "id") >>,
   r_table |-> << Stat(<<"i">>, FALSE, "None", "None"),
                  Stat(<<"q">>, TRUE, "q_table", "id") >> ]

\* table_stats::get_column_stats(conn, table): the table's column stats in
\* order, or the error of the metadata fetch.
get_column_stats(table) ==
  IF table \in fetch_fails
    THEN [ok |-> FALSE, stats |-> <<>>]
    ELSE [ok |-> TRUE, stats |-> Schema[table]]

OkNone == [kind |-> "OkNone", refs |-> <<>>, err |-> "-"]
OkSome(refs) == [kind |-> "OkSome", refs |-> refs, err |-> "-"]
Err(table) == [kind |-> "Err", refs |-> <<>>, err |-> table]

NestedNone == [some |-> FALSE, refs |-> <<>>]
NestedSome(refs) == [some |-> TRUE, refs |-> refs]

ForeignKeyReference(orig, col, tbl, tbl_col, nested) ==
  [original_refs |-> orig, referring_column |-> col, table_referred |-> tbl,
   table_column_referred |-> tbl_col, nested_fks |-> nested]

RECURSIVE from_query_columns(_, _)
RECURSIVE filtered_stats(_, _, _, _)

\* The filter_map over the stats, collected into a Result: the references of
\* the foreign key stats that match a group, in stat order, or the first error.
filtered_stats(stats, grouped, i, acc) ==
  IF i > Len(stats) THEN OkSome(acc)
  ELSE
    LET stat == stats[i]
    IN IF ~stat.is_foreign_key \/ stat.column_name \notin DOMAIN grouped
         THEN filtered_stats(stats, grouped, i + 1, acc)
         ELSE
           LET child_col_vec_match == grouped[stat.column_name][1]
               original_refs == grouped[stat.column_name][2]
               foreign_key_table == stat.foreign_key_table
               ref(nested) == ForeignKeyReference(original_refs, stat.column_name,
                                foreign_key_table, stat.foreign_key_columns, nested)
           IN IF \E k \in 1..Len(child_col_vec_match) :
                   contains_dot(child_col_vec_match[k])
                THEN
                  LET nested_fk_result ==
                        from_query_columns(foreign_key_table, child_col_vec_match)
                  IN IF nested_fk_result.kind = "Err"
                       THEN nested_fk_result
                       ELSE IF nested_fk_result.kind = "OkSome"
                         THEN filtered_stats(stats, grouped, i + 1,
                                Append(acc, ref(NestedSome(nested_fk_result.refs))))
                         ELSE filtered_stats(stats, grouped, i + 1,
                                Append(acc, ref(NestedNone)))
                ELSE filtered_stats(stats, grouped, i + 1, Append(acc, ref(NestedNone)))

\* A call that takes a failed fetch of the stats for a table without foreign
\* keys.
from_query_columns_no_stats(table, columns) ==
  LET fk_columns == dedup(sort_unstable(SelectSeq(columns, is_fk_column)))
  IN IF fk_columns = <<>>
       THEN OkNone
       ELSE
         LET fk_columns_grouped == group_columns(fk_columns, EmptyMap)
             stats == get_column_stats(table)
         IN filtered_stats(stats.stats, fk_columns_grouped, 1, <<>>)

\* ForeignKeyReference::from_query_columns(conn, table, columns)
from_query_columns(table, columns) ==
  LET fk_columns == dedup(sort_unstable(SelectSeq(columns, is_fk_column)))
  IN IF fk_columns = <<>>
       THEN OkNone
       ELSE
         LET fk_columns_grouped == group_columns(fk_columns, EmptyMap)
             stats == get_column_stats(table)
         IN IF ~stats.ok
              THEN Err(table)
              ELSE filtered_stats(stats.stats, fk_columns_grouped, 1, <<>>)

\* The column strings a request may name: a plain column, references through
\* one foreign key, through two, references through no foreign key, and
\* references along the cycles.
ColumnPool ==
  { <<"b">>,
    <<"p", ".", "p", ".", "p">>,
    <<"r", ".", "q", ".", "r">>,
    <<"f", ".", "t">>,
    <<"g", ".", "s">>,
    <<"g", ".", "n", ".", "x">>,
    <<"g", ".", "d", ".", "y">>,
    <<"x", ".", "y">>,
    <<"b", ".", "t">> }

ColumnLists == UNION {[1..n -> ColumnPool] : n \in 0..MaxColumns}

FkTables == {"a_table", "b_table", "c_table", "p_table", "q_table"}

\* What a call of from_query_columns leaves alone.
FkOnly == UNCHANGED <<cacheVars, insVars, parseVars>>

InitFk ==
  /\ fk_table \in FkTables
  /\ fk_columns_in \in ColumnLists
  /\ fetch_fails \in {{}, {"a_table"}, {"b_table"}, {"c_table"}}
  /\ fk_pc = "call"
  /\ fk_result = [kind |-> "-", refs |-> <<>>, err |-> "-"]
  /\ fk_stack = <<>>
  /\ fk_depth = 0
  /\ fk_steps = 0
  /\ CacheIdle
  /\ InsertIdle
  /\ ParseIdle

\* One call of ForeignKeyReference::from_query_columns.
call_from_query_columns ==
  /\ fk_pc = "call"
  /\ fk_result' = from_query_columns(fk_table, fk_columns_in)
  /\ fk_pc' = "done"
  /\ UNCHANGED <<fk_table, fk_columns_in, fetch_fails, fk_stack, fk_depth, fk_steps>>
  /\ FkOnly

NextFk == call_from_query_columns

SpecFk == InitFk /\ [][NextFk]_vars

(***************************************************************************)
(* Claims about from_query_columns                                         *)
(***************************************************************************)
HasDot(col) == \E i \in 1..Len(col) : col[i] = "."
DotCount(col) == Cardinality({i \in 1..Len(col) : col[i] = "."})
FirstDot(col) == CHOOSE i \in 1..Len(col) : col[i] = "." /\ \A j \in 1..(i - 1) : col[j] # "."
\* The text before the first dot, and the text after it.
TopSegment(col) == SubSeq(col, 1, FirstDot(col) - 1)
Remainder(col) == SubSeq(col, FirstDot(col) + 1, Len(col))
SeqRange(v) == {v[i] : i \in 1..Len(v)}
DottedColumns == {c \in SeqRange(fk_columns_in) : HasDot(c)}
IsFkStat(stat) == stat.is_foreign_key
FkStats(table) == SelectSeq(Schema[table], IsFkStat)
FkNames(table) == {st.column_name : st \in SeqRange(FkStats(table))}
Done == fk_pc = "done"

\* The foreign key stats of a table that are named by a set of segments, in
\* stat order, as <<column, referred table, referred column>>.
MatchedFks(table, segments) ==
  LET Named(stat) == stat.is_foreign_key /\ stat.column_name \in segments
      matched == SelectSeq(Schema[table], Named)
  IN [i \in 1..Len(matched) |->
        <<matched[i].column_name, matched[i].foreign_key_table,
          matched[i].foreign_key_columns>>]

Keys(refs) ==
  [i \in 1..Len(refs) |->
     <<refs[i].referring_column, refs[i].table_referred, refs[i].table_column_referred>>]

\* What the code does meet of the simple-query doc example: one reference
\* per matched foreign key column, in stat order, made of dotted columns only.
OneReferencePerFk ==
  (Done /\ fetch_fails = {} /\ DottedColumns # {}) =>
    /\ fk_result.kind = "OkSome"
    /\ Keys(fk_result.refs) =
         MatchedFks(fk_table, {TopSegment(c) : c \in DottedColumns})
    /\ \A i \in 1..Len(fk_result.refs) :
         SeqRange(fk_result.refs[i].original_refs) =
           {c \in DottedColumns : TopSegment(c) = fk_result.refs[i].referring_column}

\* C4: for a table whose foreign key columns include the top-level segment of
\* every requested dotted column, from_query_columns returns one reference per
\* matched foreign key column, and a reference whose requested columns all
\* have exactly one dot has nested_fks = None.
C4_OneDotNestedNone ==
  (/\ Done
   /\ fetch_fails = {}
   /\ DottedColumns # {}
   /\ \A c \in DottedColumns : TopSegment(c) \in FkNames(fk_table)) =>
    /\ fk_result.kind = "OkSome"
    /\ Keys(fk_result.refs) =
         MatchedFks(fk_table, {TopSegment(c) : c \in DottedColumns})
    /\ \A i \in 1..Len(fk_result.refs) :
         (\A c \in SeqRange(fk_result.refs[i].original_refs) : DotCount(c) = 1) =>
           fk_result.refs[i].nested_fks = NestedNone

\* C5: a top-level reference whose requested columns have two or more dots,
\* with second segments naming foreign keys of the referred table, has
\* nested_fks = Some(children): exactly one child per such second-level
\* foreign key, with its target table and column, in the order of the
\* referred table's column stats.
C5_NestedChildren ==
  (Done /\ fetch_fails = {} /\ fk_result.kind = "OkSome") =>
    \A i \in 1..Len(fk_result.refs) :
      LET ref == fk_result.refs[i]
          deep == {c \in SeqRange(ref.original_refs) : DotCount(c) >= 2}
          seconds == {TopSegment(Remainder(c)) : c \in deep}
          expected == MatchedFks(ref.table_referred, seconds)
      IN expected # <<>> =>
           /\ ref.nested_fks.some
           /\ Keys(ref.nested_fks.refs) = expected

\* C6: from_query_columns returns Ok(None) for every table when no requested
\* column contains a '.', the empty column list included, whether or not the
\* table's stats can be fetched.
C6_NoDotIsNone ==
  (Done /\ DottedColumns = {}) => fk_result = OkNone

\* C6 witness: a call with plain columns only, on a table whose stats fetch
\* would fail, has returned.
C6_Witness ==
  /\ Done
  /\ fk_columns_in = << <<"b">>, <<"b">> >>
  /\ fk_table \in fetch_fails
  /\ fk_result = OkNone

\* C7: from_query_columns returns Ok(None) whenever no provided column is a
\* foreign key of the table, also when dotted columns are provided whose
\* top-level segment matches no foreign key column stat of the table.
C7_NoFkIsNone ==
  (/\ Done
   /\ fetch_fails = {}
   /\ \A c \in DottedColumns : TopSegment(c) \notin FkNames(fk_table)) =>
    fk_result = OkNone

TopSegments == {TopSegment(c) : c \in DottedColumns}

\* The tables whose stats a call fetches after the table's own: the tables
\* referred to by the foreign keys the dotted columns name, in stat order
\* (the call recurses into the table of every foreign key it matches).
ReferredTables ==
  LET matched == MatchedFks(fk_table, TopSegments)
  IN [i \in 1..Len(matched) |-> matched[i][2]]

FirstFailing(tables) ==
  CHOOSE i \in 1..Len(tables) :
    /\ tables[i] \in fetch_fails
    /\ \A j \in 1..(i - 1) : tables[j] \notin fetch_fails

\* C17: a call with a dotted column fetches the stats of its table; when that
\* fetch fails, or else when the fetch for a referred table fails, the call
\* returns that error, and with it no reference.
C17_FetchErrorPropagates ==
  (Done /\ DottedColumns # {}) =>
    /\ fk_table \in fetch_fails => fk_result = Err(fk_table)
    /\ (/\ fk_table \notin fetch_fails
        /\ \E i \in 1..Len(ReferredTables) : ReferredTables[i] \in fetch_fails) =>
         fk_result = Err(ReferredTables[FirstFailing(ReferredTables)])
    /\ fk_result.kind = "Err" => fk_result.refs = <<>>

\* C17 witness: on a_table the foreign key f was matched before g, and the
\* call returned the error of fetching c_table, the table g refers to.
C17_Witness ==
  /\ Done
  /\ fk_table = "a_table"
  /\ fetch_fails = {"c_table"}
  /\ {<<"f", ".", "t">>, <<"g", ".", "s">>} \subseteq DottedColumns
  /\ fk_result = Err("c_table")

\* The elements of a set of strings in descending order.
RECURSIVE Descending(_)
Descending(strs) ==
  IF strs = {} THEN <<>>
  ELSE LET top == CHOOSE x \in strs : \A y \in strs \ {x} : StrLess(y, x)
       IN <<top>> \o Descending(strs \ {top})

\* C19: the result is that of the call with the set of requested columns
\* listed once each in descending order (so every list of the same set gives
\* the same result); the references follow the table's column-stat order and
\* each reference's original_refs are in ascending order without duplicates.
C19_SetOfColumnsDecides ==
  Done =>
    /\ fk_result = from_query_columns(fk_table, Descending(SeqRange(fk_columns_in)))
    /\ fk_result.kind = "OkSome" =>
         /\ Keys(fk_result.refs) = MatchedFks(fk_table, TopSegments)
         /\ \A i \in 1..Len(fk_result.refs) :
              LET orig == fk_result.refs[i].original_refs
              IN /\ \A j \in 1..(Len(orig) - 1) : StrLess(orig[j], orig[j + 1])
                 /\ SeqRange(orig) =
                      {c \in DottedColumns :
                         TopSegment(c) = fk_result.refs[i].referring_column}

\* C19 witness: a call with a repeated column and the columns out of order
\* returned the two references in stat order, the second with its two
\* requested columns in ascending order.
C19_Witness ==
  /\ Done
  /\ fk_table = "a_table"
  /\ fk_columns_in = << <<"g", ".", "s">>, <<"f", ".", "t">>, <<"g", ".", "n", ".", "x">> >>
  /\ Keys(fk_result.refs) = << <<(<<"f">>), "b_table", "id">>, <<(<<"g">>), "c_table", "id">> >>
  /\ fk_result.refs[2].original_refs =
       << <<"g", ".", "n", ".", "x">>, <<"g", ".", "s">> >>

(***************************************************************************)
(* Part C: insert_into_table                                               *)
(*                                                                         *)
(* A row (a serde_json Map) is the sequence of its <<key, value>> entries  *)
(* in the order keys() yields them; SQL text is built as strings.          *)
(***************************************************************************)
INSERT_ROWS_BATCH_COUNT == 2

JsonNumber(n) == [json |-> "number", v |-> n]
JsonString(n) == [json |-> "string", v |-> n]

\* [a, b, c].join(sep)
RECURSIVE Join(_, _)
Join(strs, sep) ==
  IF strs = <<>> THEN ""
  ELSE IF Len(strs) = 1 THEN strs[1]
  ELSE strs[1] \o sep \o Join(Tail(strs), sep)

\* row.keys()
keys(row) == [k \in 1..Len(row) |-> row[k][1]]

\* row.get(column)
row_get(row, column) ==
  IF \E k \in 1..Len(row) : row[k][1] = column
    THEN Some(row[CHOOSE k \in 1..Len(row) : row[k][1] = column][2])
    ELSE None

\* columns.iter().position(|c| c == column).is_none()
not_in(columns, column) == \A k \in 1..Len(columns) : columns[k] # column

\* The inner loop of get_all_columns_to_insert: pushes the keys of one row
\* that are not in columns yet.
RECURSIVE push_new_columns(_, _)
push_new_columns(columns, row_keys) ==
  IF row_keys = <<>> THEN columns
  ELSE push_new_columns(
         IF not_in(columns, Head(row_keys)) THEN Append(columns, Head(row_keys))
                                            ELSE columns,
         Tail(row_keys))

RECURSIVE all_columns_from(_, _)
all_columns_from(columns, rows) ==
  IF rows = <<>> THEN columns
  ELSE all_columns_from(push_new_columns(columns, keys(Head(rows))), Tail(rows))

\* get_all_columns_to_insert(rows)
get_all_columns_to_insert(rows) == all_columns_from(<<>>, rows)

\* The column types of the table, as collected from select_column_stats.
column_types == [a |-> "int4", b |-> "text", c |-> "text"]

\* ColumnTypeValue::from_json(column_type, val): the typed value, or an error
\* when the JSON value does not have the shape of the column type.
from_json(column_type, val) ==
  IF column_type = "int4" /\ val.json = "number"
    THEN [ok |-> TRUE, value |-> [variant |-> "Int", val |-> val.v]]
  ELSE IF column_type = "text" /\ val.json = "string"
    THEN [ok |-> TRUE, value |-> [variant |-> "Text", val |-> val.v]]
  ELSE [ok |-> FALSE, value |-> [variant |-> "-", val |-> 0]]

\* A counter that skips a number for every placeholder.
advance_by_two(prep_column_number) == prep_column_number + 2

\* prep_column_number += 1
advance(prep_column_number) == prep_column_number + 1

\* The loop over the columns of one row in get_insert_params: the row's
\* tokens, its converted values and the next placeholder number, or the
\* conversion error.
RECURSIVE row_params(_, _, _, _, _)
row_params(row, columns, prep_column_number, row_str_arr, column_values) ==
  IF columns = <<>>
    THEN [ok |-> TRUE, row_str_arr |-> row_str_arr, column_values |-> column_values,
          prep_column_number |-> prep_column_number]
  ELSE
    LET column == Head(columns)
        cell == row_get(row, column)
    IN IF cell.some
         THEN LET converted == from_json(column_types[column], cell.v)
              IN IF converted.ok
                   THEN row_params(row, Tail(columns), advance(prep_column_number),
                          Append(row_str_arr, "$" \o ToString(prep_column_number)),
                          Append(column_values, converted.value))
                   ELSE [ok |-> FALSE, row_str_arr |-> <<>>, column_values |-> <<>>,
                         prep_column_number |-> prep_column_number]
         ELSE row_params(row, Tail(columns), prep_column_number,
                Append(row_str_arr, "DEFAULT"), column_values)

\* The map over the rows in get_insert_params, collected into a Result.
RECURSIVE rows_params(_, _, _, _, _)
rows_params(rows, columns, prep_column_number, row_strs, nested_column_values) ==
  IF rows = <<>>
    THEN [ok |-> TRUE, values_str |-> Join(row_strs, ", "),
          column_values |-> nested_column_values]
  ELSE
    LET r == row_params(Head(rows), columns, prep_column_number, <<>>, <<>>)
    IN IF r.ok
         THEN rows_params(Tail(rows), columns, r.prep_column_number,
                Append(row_strs, "(" \o Join(r.row_str_arr, ", ") \o ")"),
                nested_column_values \o r.column_values)
         ELSE [ok |-> FALSE, values_str |-> "", column_values |-> <<>>]

\* get_insert_params(rows, columns, column_types)
get_insert_params(rows, columns) == rows_params(rows, columns, 1, <<>>, <<>>)

\* A SET list that names every column, the conflict target columns too.
set_clauses_all(columns, conflict_target_vec) ==
  [k \in 1..Len(columns) |-> columns[k] \o "=" \o "EXCLUDED." \o columns[k]]

\* The filter_map of generate_conflict_str: "<col>=EXCLUDED.<col>" for the
\* columns that are no conflict target.
set_clauses(columns, conflict_target_vec) ==
  LET IsNoTarget(col) == not_in(conflict_target_vec, col)
      kept == SelectSeq(columns, IsNoTarget)
  IN [k \in 1..Len(kept) |-> kept[k] \o "=" \o "EXCLUDED." \o kept[k]]

\* generate_conflict_str(query_params, columns)
generate_conflict_str(params, columns) ==
  IF params.conflict_action.some /\ params.conflict_target.some
    THEN LET conflict_action_str == params.conflict_action.v
             conflict_target_vec == params.conflict_target.v
             expanded_conflict_action ==
               IF conflict_action_str = "update"
                 THEN "DO UPDATE SET "
                        \o Join(set_clauses(columns, conflict_target_vec), ", ")
                 ELSE "DO NOTHING"
         IN Some(" ON CONFLICT (" \o Join(conflict_target_vec, ", ") \o ") "
                   \o expanded_conflict_action)
    ELSE NoneStr

\* generate_returning_clause(query_params)
generate_returning_clause(params) ==
  IF params.returning_columns.some
    THEN Some(" RETURNING " \o Join(params.returning_columns.v, ", "))
    ELSE NoneStr

InsertTable == "t"

\* execute_insert up to the prepared statement: the statement text and its
\* bind values for one batch, or the conversion error.
build_insert(params, rows) ==
  LET columns == get_all_columns_to_insert(rows)
      insert_params == get_insert_params(rows, columns)
      conflict == generate_conflict_str(params, columns)
      conflict_clause == IF conflict.some THEN conflict.v ELSE ""
      returning == generate_returning_clause(params)
      returning_clause == IF returning.some THEN returning.v ELSE ""
  IN [ok |-> insert_params.ok,
      rows |-> rows,
      columns |-> columns,
      values_params_str |-> insert_params.values_str,
      column_values |-> insert_params.column_values,
      conflict_clause |-> conflict_clause,
      is_return_rows |-> returning.some,
      insert_query_str |->
        "INSERT INTO " \o InsertTable \o " (" \o Join(columns, ", ") \o ")"
          \o " VALUES " \o insert_params.values_str \o conflict_clause
          \o returning_clause]

\* The rows a request may carry: all three columns; only b; a alone; and a
\* row whose value for the int4 column a is a JSON string.
RowPool ==
  { << <<"a", JsonNumber(1)>>, <<"b", JsonString(1)>>, <<"c", JsonString(2)>> >>,
    << <<"b", JsonString(3)>> >>,
    << <<"a", JsonNumber(2)>> >>,
    << <<"a", JsonString(4)>> >> }

RowLists == UNION {[1..n -> RowPool] : n \in 0..MaxRows}

\* The ON CONFLICT parameters a request may carry: none, DO NOTHING, DO UPDATE,
\* and an action without a target.
ConflictParams ==
  { <<NoneStr, None>>,
    <<Some("nothing"), Some(<<"a", "b">>)>>,
    <<Some("update"), Some(<<"a">>)>>,
    <<Some("update"), None>> }

ReturningParams == {None, Some(<<"a", "b">>)}

\* What a call of insert_into_table leaves alone.
InsertOnly == UNCHANGED <<cacheVars, fkVars, parseVars>>

InitInsert ==
  /\ \E rows \in RowLists, conflict \in ConflictParams, returning \in ReturningParams :
       query_params = [rows |-> rows, conflict_action |-> conflict[1],
                       conflict_target |-> conflict[2],
                       returning_columns |-> returning]
  /\ ins_pc = "start"
  /\ loop_i = 0
  /\ batch_rows = <<>>
  /\ total_num_rows_affected = 0
  /\ total_rows_returned = <<>>
  /\ db_log = <<>>
  /\ db_table = <<>>
  /\ ins_result = NoResult
  /\ CacheIdle
  /\ FkIdle
  /\ ParseIdle

num_rows == Len(query_params.rows)

ErrResult(e) == [kind |-> "Err", rows |-> <<>>, num_rows |-> 0, err |-> e]

\* insert_into_table up to the choice between batching and one insert: the
\* column types are fetched, and the fetch may fail.
insert_begin ==
  /\ ins_pc = "start"
  /\ \E stats_ok \in BOOLEAN :
       IF stats_ok
         THEN /\ ins_pc' = IF num_rows >= INSERT_ROWS_BATCH_COUNT THEN "loop" ELSE "all"
              /\ UNCHANGED ins_result
         ELSE /\ ins_pc' = "done"
              /\ ins_result' = ErrResult("select_column_stats")
  /\ UNCHANGED <<query_params, loop_i, batch_rows, total_num_rows_affected,
                 total_rows_returned, db_log, db_table>>
  /\ InsertOnly

\* What the database may answer to a statement of n rows: an error, or the
\* number of rows it affected (and returns, with RETURNING).
DbAnswers(n) == {[ok |-> FALSE, affected |-> 0]} \cup {[ok |-> TRUE, affected |-> k] : k \in 0..n}

\* The rows a statement affects (and returns, with RETURNING): the first
\* `affected` rows of call number c.
ReturnedRows(c, affected) == [k \in 1..affected |-> [call |-> c, idx |-> k]]

\* An early return that rolls back what the earlier statements applied, as
\* one transaction around all the statements would.
rolled_back(applied) == <<>>

\* The ? on execute_insert's result: the error is returned at once. No
\* transaction was begun (the builder call is commented out), so what the
\* earlier statements applied stays.
early_return(applied) == applied

\* execute_insert on `rows` and the match on its result; on success
\* insert_into_table goes on at next_pc.
execute_insert(rows, next_pc) ==
  LET built == build_insert(query_params, rows)
  IN IF ~built.ok
       THEN /\ ins_pc' = "done"
            /\ ins_result' = ErrResult("from_json")
            /\ db_table' = early_return(db_table)
            /\ UNCHANGED <<db_log, total_num_rows_affected, total_rows_returned>>
       ELSE \E answer \in DbAnswers(Len(rows)) :
              /\ db_log' = Append(db_log, [built EXCEPT !.ok = answer.ok]
                                            @@ [affected |-> answer.affected])
              /\ db_table' = IF answer.ok
                               THEN db_table \o ReturnedRows(Len(db_log) + 1, answer.affected)
                               ELSE early_return(db_table)
              /\ IF ~answer.ok
                   THEN /\ ins_pc' = "done"
                        /\ ins_result' = ErrResult("database")
                        /\ UNCHANGED <<total_num_rows_affected, total_rows_returned>>
                   ELSE /\ ins_pc' = next_pc
                        /\ UNCHANGED ins_result
                        /\ IF built.is_return_rows
                             THEN /\ total_rows_returned' = total_rows_returned \o
                                       ReturnedRows(Len(db_log) + 1, answer.affected)
                                  /\ UNCHANGED total_num_rows_affected
                             ELSE /\ total_num_rows_affected' =
                                       total_num_rows_affected + answer.affected
                                  /\ UNCHANGED total_rows_returned

\* A batch condition that forgets the last, incomplete batch.
is_batch_end_full_only(idx, n) == (idx + 1) % INSERT_ROWS_BATCH_COUNT = 0

\* (i + 1) % INSERT_ROWS_BATCH_COUNT == 0 || i == num_rows - 1
is_batch_end(idx, n) ==
  (idx + 1) % INSERT_ROWS_BATCH_COUNT = 0 \/ idx = n - 1

\* One iteration of the batching loop: the row is pushed and, at the end of
\* a batch, the pushed rows are inserted and the batch is reset.
loop_step ==
  /\ ins_pc = "loop"
  /\ loop_i < num_rows
  /\ LET pushed == Append(batch_rows, query_params.rows[loop_i + 1])
         next_pc == IF loop_i + 1 < num_rows THEN "loop" ELSE "commit"
     IN IF is_batch_end(loop_i, num_rows)
          THEN /\ execute_insert(pushed, next_pc)
               /\ batch_rows' = <<>>
          ELSE /\ batch_rows' = pushed
               /\ ins_pc' = next_pc
               /\ UNCHANGED <<db_log, db_table, ins_result, total_num_rows_affected,
                              total_rows_returned>>
  /\ loop_i' = loop_i + 1
  /\ UNCHANGED query_params
  /\ InsertOnly

\* Fewer rows than a batch: all rows are inserted by one statement.
insert_all ==
  /\ ins_pc = "all"
  /\ execute_insert(query_params.rows, "commit")
  /\ UNCHANGED <<query_params, loop_i, batch_rows>>
  /\ InsertOnly

\* The end of insert_into_table: the accumulated rows with returning_columns,
\* the accumulated count without.
insert_return ==
  /\ ins_pc = "commit"
  /\ ins_pc' = "done"
  /\ ins_result' =
       IF query_params.returning_columns.some
         THEN [kind |-> "QueryTableResult", rows |-> total_rows_returned,
               num_rows |-> 0, err |-> "-"]
         ELSE [kind |-> "RowsAffected", rows |-> <<>>,
               num_rows |-> total_num_rows_affected, err |-> "-"]
  /\ UNCHANGED <<query_params, loop_i, batch_rows, total_num_rows_affected,
                 total_rows_returned, db_log, db_table>>
  /\ InsertOnly

NextInsert ==
  \/ insert_begin
  \/ loop_step
  \/ insert_all
  \/ insert_return

SpecInsert == InitInsert /\ [][NextInsert]_vars

(***************************************************************************)
(* Claims about insert_into_table                                          *)
(***************************************************************************)
InsertOk == ins_pc = "done" /\ ins_result.kind # "Err"

RECURSIVE SumAffected(_)
SumAffected(log) ==
  IF log = <<>> THEN 0 ELSE SumAffected(SubSeq(log, 1, Len(log) - 1)) + log[Len(log)].affected

RECURSIVE ConcatReturned(_)
ConcatReturned(log) ==
  IF log = <<>> THEN <<>>
  ELSE ConcatReturned(SubSeq(log, 1, Len(log) - 1))
         \o [k \in 1..log[Len(log)].affected |-> [call |-> Len(log), idx |-> k]]

\* C8: an insert of R >= 1 rows that returns a result has issued exactly
\* ceil(R / INSERT_ROWS_BATCH_COUNT) statements (2 for N + 1 rows); the result
\* is the sum of the statements' affected-row counts without
\* returning_columns, and the statements' returned rows concatenated in
\* statement order with returning_columns.
C8_BatchCallsAndResult ==
  (InsertOk /\ num_rows >= 1) =>
    /\ Len(db_log) =
         (num_rows + INSERT_ROWS_BATCH_COUNT - 1) \div INSERT_ROWS_BATCH_COUNT
    /\ num_rows = INSERT_ROWS_BATCH_COUNT + 1 => Len(db_log) = 2
    /\ IF query_params.returning_columns.some
         THEN /\ ins_result.kind = "QueryTableResult"
              /\ ins_result.rows = ConcatReturned(db_log)
         ELSE /\ ins_result.kind = "RowsAffected"
              /\ ins_result.num_rows = SumAffected(db_log)

\* C8 witness: N + 1 rows inserted by two statements that affected 2 and 1
\* rows, returned as the count 3.
C8_Witness ==
  /\ InsertOk
  /\ num_rows = INSERT_ROWS_BATCH_COUNT + 1
  /\ Len(db_log) = 2
  /\ db_log[1].affected = 2 /\ db_log[2].affected = 1
  /\ ins_result.kind = "RowsAffected"
  /\ ins_result.num_rows = 3

\* A list of strings separated by ", ".
RECURSIVE CommaList(_)
CommaList(strs) ==
  IF strs = <<>> THEN ""
  ELSE CommaList(SubSeq(strs, 1, Len(strs) - 1))
         \o (IF Len(strs) > 1 THEN ", " ELSE "") \o strs[Len(strs)]

\* The ON CONFLICT clause the insert parameters ask for, given the union
\* columns of a batch.
ExpectedConflictClause(columns) ==
  IF ~query_params.conflict_action.some \/ ~query_params.conflict_target.some
    THEN ""
    ELSE LET target == query_params.conflict_target.v
             NotTarget(col) == col \notin SeqRange(target)
             updated == SelectSeq(columns, NotTarget)
             head == " ON CONFLICT (" \o CommaList(target) \o ") "
         IN IF query_params.conflict_action.v = "nothing"
              THEN head \o "DO NOTHING"
              ELSE head \o "DO UPDATE SET "
                     \o CommaList([k \in 1..Len(updated) |->
                                     updated[k] \o "=EXCLUDED." \o updated[k]])

\* C9: every statement carries no ON CONFLICT clause when conflict_action or
\* conflict_target is absent, " ON CONFLICT (<targets joined by ', '>) DO
\* NOTHING" for the action "nothing", and for "update" the DO UPDATE SET list
\* "c=EXCLUDED.c" of exactly the batch's union columns that are not in
\* conflict_target, in union-column order.
C9_ConflictClause ==
  \A k \in 1..Len(db_log) :
    /\ db_log[k].conflict_clause = ExpectedConflictClause(db_log[k].columns)
    /\ (query_params.conflict_action = Some("update")
        /\ query_params.conflict_target = Some(<<"a">>)
        /\ db_log[k].columns = <<"a", "b", "c">>) =>
         db_log[k].conflict_clause =
           " ON CONFLICT (a) DO UPDATE SET b=EXCLUDED.b, c=EXCLUDED.c"

\* C9 witness: a statement for the columns [a, b, c] with target [a] and
\* action "update" was built.
C9_Witness ==
  \E k \in 1..Len(db_log) :
    /\ db_log[k].columns = <<"a", "b", "c">>
    /\ query_params.conflict_action = Some("update")
    /\ query_params.conflict_target = Some(<<"a">>)
    /\ db_log[k].conflict_clause =
         " ON CONFLICT (a) DO UPDATE SET b=EXCLUDED.b, c=EXCLUDED.c"

HasColumn(row, col) == \E k \in 1..Len(row) : row[k][1] = col
CellValue(row, col) == row[CHOOSE k \in 1..Len(row) : row[k][1] = col][2]
Converted(col, val) ==
  [variant |-> IF column_types[col] = "int4" THEN "Int" ELSE "Text", val |-> val.v]

\* The cells of a batch, row-major, that come before cell (j, c).
CellsBefore(rows, cols, j, c) ==
  {<<j2, c2>> \in (1..Len(rows)) \X (1..Len(cols)) :
     /\ j2 < j \/ (j2 = j /\ c2 < c)
     /\ HasColumn(rows[j2], cols[c2])}

PlaceholderNumber(rows, cols, j, c) == Cardinality(CellsBefore(rows, cols, j, c)) + 1

PresentCells(rows, cols) ==
  {<<j, c>> \in (1..Len(rows)) \X (1..Len(cols)) : HasColumn(rows[j], cols[c])}

ExpectedValuesStr(rows, cols) ==
  CommaList([j \in 1..Len(rows) |->
    "(" \o CommaList([c \in 1..Len(cols) |->
                        IF HasColumn(rows[j], cols[c])
                          THEN "$" \o ToString(PlaceholderNumber(rows, cols, j, c))
                          ELSE "DEFAULT"]) \o ")"])

FirstRowWith(rows, col) == CHOOSE j \in 1..Len(rows) :
  HasColumn(rows[j], col) /\ \A j2 \in 1..(j - 1) : ~HasColumn(rows[j2], col)

\* C10: in every statement the columns are the union of the batch's row
\* keys in first-seen order; walking rows in order and columns in order, a
\* cell the row lacks is the token DEFAULT and binds nothing, a cell the row
\* has is the next placeholder $k, k starting at 1 in every batch, and the
\* value bound to $k is the converted k-th present cell in row-major order,
\* so the placeholders are exactly $1..$m, m the length of the bind list.
C10_PlaceholdersAndBinds ==
  \A n \in 1..Len(db_log) :
    LET rows == db_log[n].rows
        cols == db_log[n].columns
        binds == db_log[n].column_values
    IN /\ SeqRange(cols) = UNION {SeqRange(keys(rows[j])) : j \in 1..Len(rows)}
       /\ \A c1, c2 \in 1..Len(cols) :
            c1 < c2 => /\ cols[c1] # cols[c2]
                       /\ FirstRowWith(rows, cols[c1]) <= FirstRowWith(rows, cols[c2])
       /\ db_log[n].values_params_str = ExpectedValuesStr(rows, cols)
       /\ Len(binds) = Cardinality(PresentCells(rows, cols))
       /\ \A cell \in PresentCells(rows, cols) :
            binds[PlaceholderNumber(rows, cols, cell[1], cell[2])] =
              Converted(cols[cell[2]], CellValue(rows[cell[1]], cols[cell[2]]))

\* C10 witness: two batches of one insert, the first with DEFAULT tokens and
\* the placeholders $1..$4, the second numbered from $1 again.
C10_Witness ==
  /\ Len(db_log) = 2
  /\ db_log[1].values_params_str = "($1, DEFAULT, DEFAULT), ($2, $3, $4)"
  /\ Len(db_log[1].column_values) = 4
  /\ db_log[2].values_params_str = "($1)"

\* C11: when the conversion of a row's value to its column type fails, no
\* INSERT statement of the request has been executed and the database holds
\* no row of the request.
C11_ConversionErrorBeforeAnySql ==
  (ins_pc = "done" /\ ins_result = ErrResult("from_json")) =>
    /\ db_log = <<>>
    /\ db_table = <<>>

Min(a, b) == IF a < b THEN a ELSE b

\* The rows of the k-th group of INSERT_ROWS_BATCH_COUNT rows of the request.
RowGroup(k) ==
  SubSeq(query_params.rows, (k - 1) * INSERT_ROWS_BATCH_COUNT + 1,
         Min(k * INSERT_ROWS_BATCH_COUNT, num_rows))

RECURSIVE ConcatRows(_)
ConcatRows(log) ==
  IF log = <<>> THEN <<>>
  ELSE ConcatRows(SubSeq(log, 1, Len(log) - 1)) \o log[Len(log)].rows

\* C20: every statement of an insert, also of an insert with zero rows,
\* carries at least 1 and at most INSERT_ROWS_BATCH_COUNT rows, and the
\* statements of an insert that returned a result carry, concatenated in
\* execution order, exactly the request's rows.
C20_BatchSizes ==
  /\ \A k \in 1..Len(db_log) :
       /\ Len(db_log[k].rows) >= 1
       /\ Len(db_log[k].rows) <= INSERT_ROWS_BATCH_COUNT
  /\ InsertOk => ConcatRows(db_log) = query_params.rows

\* C21: every statement built for at least one row under the conflict action
\* "update" has a DO UPDATE clause whose SET list holds at least one
\* assignment: some union column of the batch is no conflict_target column,
\* and the clause does not end right after "DO UPDATE SET ".
C21_UpdateSetListNonEmpty ==
  \A k \in 1..Len(db_log) :
    (/\ query_params.conflict_action = Some("update")
     /\ query_params.conflict_target.some
     /\ db_log[k].rows # <<>>) =>
      LET target == query_params.conflict_target.v
          cols == db_log[k].columns
      IN /\ \E c \in 1..Len(cols) : cols[c] \notin SeqRange(target)
         /\ db_log[k].conflict_clause #
              " ON CONFLICT (" \o CommaList(target) \o ") DO UPDATE SET "

(***************************************************************************)
(* Part D: from_http_request of QueryParamsSelect, QueryParamsInsert and   *)
(* QueryParamsUpdate                                                       *)
(*                                                                         *)
(* A query string parameter is the sequence of its characters, so that     *)
(* to_lowercase, trim, the split at ',' and the comparison with "" are     *)
(* computed; the body is a JSON value.                                     *)
(***************************************************************************)
MaxBodyItems == 2   \* elements of a JSON array body

default_limit == 10000
default_offset == 0

NoneNum == [some |-> FALSE, v |-> 0]

\* char::to_lowercase, on the characters used.
lower_char(c) ==
  CASE c = "A" -> "a" [] c = "D" -> "d" [] c = "E" -> "e"
    [] c = "P" -> "p" [] c = "T" -> "t" [] c = "U" -> "u"
    [] OTHER -> c

\* str::to_lowercase
to_lowercase(str) == [i \in 1..Len(str) |-> lower_char(str[i])]

RECURSIVE trim_start(_)
trim_start(str) ==
  IF str # <<>> /\ Head(str) = " " THEN trim_start(Tail(str)) ELSE str

RECURSIVE trim_end(_)
trim_end(str) ==
  IF str # <<>> /\ str[Len(str)] = " "
    THEN trim_end(SubSeq(str, 1, Len(str) - 1))
    ELSE str

\* str::trim
trim(str) == trim_end(trim_start(str))

\* str::split(sep), collected: the pieces between the separators; the empty
\* string gives one empty piece.
RECURSIVE split_from(_, _, _, _)
split_from(str, sep, piece, pieces) ==
  IF str = <<>> THEN Append(pieces, piece)
  ELSE IF Head(str) = sep
    THEN split_from(Tail(str), sep, <<>>, Append(pieces, piece))
    ELSE split_from(Tail(str), sep, Append(piece, Head(str)), pieces)

split(str, sep) == split_from(str, sep, <<>>, <<>>)

\* utils::normalize_columns(columns_str): the comma-separated names, trimmed
\* and lowercased; an empty name is an error.
normalize_columns(columns_str) ==
  LET pieces == split(columns_str, ",")
      names == [i \in 1..Len(pieces) |-> to_lowercase(trim(pieces[i]))]
  IN IF \E i \in 1..Len(names) : names[i] = <<>>
       THEN [ok |-> FALSE, v |-> <<>>, err |-> "INCORRECT_REQUEST_BODY"]
       ELSE [ok |-> TRUE, v |-> names, err |-> "-"]

\* match opt { Some(s) => Some(normalize_columns(&s)?), None => None }
normalize_optional(opt) ==
  IF ~opt.some THEN [ok |-> TRUE, v |-> None, err |-> "-"]
  ELSE LET n == normalize_columns(opt.v)
       IN IF n.ok THEN [ok |-> TRUE, v |-> Some(n.v), err |-> "-"]
                  ELSE [ok |-> FALSE, v |-> None, err |-> n.err]

JsonNull == [json |-> "null", v |-> 0]
JsonObject(map) == [json |-> "object", map |-> map]
JsonArray(items) == [json |-> "array", items |-> items]

\* Value::as_array, Value::as_object, Value::is_object
as_array(val) == IF val.json = "array" THEN Some(val.items) ELSE None
as_object(val) == IF val.json = "object" THEN Some(val.map) ELSE None
is_object(val) == val.json = "object"

ParseOk(params) == [kind |-> "Ok", params |-> params, err |-> "-"]
ParseErr(code) == [kind |-> "Err", params |-> [table |-> <<>>], err |-> code]

\* where_string.trim().to_lowercase()
conditions_of(opt) == IF opt.some THEN Some(to_lowercase(trim(opt.v))) ELSE None

\* A limit that ignores what the caller supplied.
limit_always_default(limit) == default_limit

\* match query_string_params.limit { Some(limit) => limit, None => default_limit }
limit_or_default(limit) == IF limit.some THEN limit.v ELSE default_limit

\* match query_string_params.offset { Some(offset) => offset, None => default_offset }
offset_or_default(offset) == IF offset.some THEN offset.v ELSE default_offset

\* QueryParamsSelect::from_http_request(req, query_string_params)
select_from_http_request(table, qs) ==
  LET columns == normalize_optional(qs.columns)
      distinct == normalize_optional(qs.distinct)
      group_by == normalize_optional(qs.group_by)
      order_by == normalize_optional(qs.order_by)
  IN IF ~columns.ok THEN ParseErr(columns.err)
     ELSE IF ~distinct.ok THEN ParseErr(distinct.err)
     ELSE IF ~group_by.ok THEN ParseErr(group_by.err)
     ELSE IF ~order_by.ok THEN ParseErr(order_by.err)
     ELSE ParseOk([columns |-> IF columns.v.some THEN columns.v.v ELSE <<>>,
                   distinct |-> distinct.v,
                   table |-> to_lowercase(table),
                   conditions |-> conditions_of(qs.where),
                   group_by |-> group_by.v,
                   order_by |-> order_by.v,
                   limit |-> limit_or_default(qs.limit),
                   offset |-> offset_or_default(qs.offset)])

\* A check that misses a conflict_target given without a conflict_action.
conflict_mismatch_action_only(conflict_action, conflict_target) ==
  conflict_action.some /\ ~conflict_target.some

\* (conflict_action.is_some() && conflict_target.is_none())
\*   || (conflict_action.is_none() && conflict_target.is_some())
conflict_mismatch(conflict_action, conflict_target) ==
  \/ conflict_action.some /\ ~conflict_target.some
  \/ ~conflict_action.some /\ conflict_target.some

Nothing == <<"n", "o", "t", "h", "i", "n", "g">>
Update == <<"u", "p", "d", "a", "t", "e">>

\* The validation of a conflict_action given with a conflict_target: the
\* error message's case, or "-" when both are valid.
conflict_invalid(conflict_action_str, conflict_target_vec) ==
  IF conflict_action_str # Nothing /\ conflict_action_str # Update
    THEN "action"
  ELSE IF conflict_target_vec = <<>>
    THEN "no target"
  ELSE IF \E i \in 1..Len(conflict_target_vec) : conflict_target_vec[i] = <<>>
    THEN "empty target"
  ELSE "-"

\* An empty returning_columns read as the empty list of columns.
returning_columns_lenient(opt) ==
  IF ~opt.some THEN [ok |-> TRUE, v |-> None, err |-> "-"]
  ELSE IF opt.v = <<>> THEN [ok |-> TRUE, v |-> Some(<<>>), err |-> "-"]
  ELSE normalize_optional(opt)

\* The match on query_string_params.returning_columns, the same in the insert
\* and the update parser: "" is an error, any other string is normalized.
returning_columns_of(opt) ==
  IF ~opt.some THEN [ok |-> TRUE, v |-> None, err |-> "-"]
  ELSE IF opt.v = <<>>
    THEN [ok |-> FALSE, v |-> None, err |-> "INCORRECT_REQUEST_BODY"]
  ELSE normalize_optional(opt)

\* A check that is content with one object among the elements.
any_object(items) == \E i \in 1..Len(items) : is_object(items[i])

\* body_rows_to_insert.iter().all(Value::is_object)
all_objects(items) == \A i \in 1..Len(items) : is_object(items[i])

\* QueryParamsInsert::from_http_request(req, body, query_string_params)
insert_from_http_request(table, json_body, qs) ==
  LET conflict_action ==
        IF qs.conflict_action.some
          THEN Some(to_lowercase(qs.conflict_action.v))
          ELSE None
      conflict_target == normalize_optional(qs.conflict_target)
      returning_columns == returning_columns_of(qs.returning_columns)
      body_rows_to_insert == as_array(json_body)
  IN IF ~conflict_target.ok THEN ParseErr(conflict_target.err)
     ELSE IF conflict_mismatch(conflict_action, conflict_target.v)
       THEN ParseErr("INCORRECT_REQUEST_BODY")
     ELSE IF /\ conflict_action.some
             /\ conflict_target.v.some
             /\ conflict_invalid(conflict_action.v, conflict_target.v.v) # "-"
       THEN ParseErr("INCORRECT_REQUEST_BODY")
     ELSE IF ~returning_columns.ok THEN ParseErr(returning_columns.err)
     ELSE IF ~body_rows_to_insert.some THEN ParseErr("INCORRECT_REQUEST_BODY")
     ELSE IF ~all_objects(body_rows_to_insert.v)
       THEN ParseErr("INCORRECT_REQUEST_BODY")
     ELSE ParseOk([conflict_action |-> conflict_action,
                   conflict_target |-> conflict_target.v,
                   returning_columns |-> returning_columns.v,
                   rows |-> [i \in 1..Len(body_rows_to_insert.v) |->
                               as_object(body_rows_to_insert.v[i]).v],
                   table |-> to_lowercase(table)])

\* QueryParamsUpdate::from_http_request(req, body, query_string_params)
update_from_http_request(table, json_body, qs) ==
  LET column_values == as_object(json_body)
      returning_columns == returning_columns_of(qs.returning_columns)
  IN IF ~column_values.some THEN ParseErr("INCORRECT_REQUEST_BODY")
     ELSE IF ~returning_columns.ok THEN ParseErr(returning_columns.err)
     ELSE ParseOk([column_values |-> column_values.v,
                   conditions |-> conditions_of(qs.where),
                   returning_columns |-> returning_columns.v,
                   table |-> to_lowercase(table)])

\* The comma-separated lists a parameter may carry: "", "a", "a,b",
\* " A ,b", "a,,b" and "a,".
ColumnStrings ==
  { <<>>,
    <<"a">>,
    <<"a", ",", "b">>,
    <<" ", "A", " ", ",", "b">>,
    <<"a", ",", ",", "b">>,
    <<"a", ",">> }

OptionalColumnStrings == {None} \cup {Some(str) : str \in ColumnStrings}

\* The conflict_action values: absent, "nothing", "update", "UPDATE",
\* "replace" and "".
ConflictActions ==
  { None, Some(Nothing), Some(Update),
    Some(<<"U", "P", "D", "A", "T", "E">>),
    Some(<<"r", "e", "p", "l", "a", "c", "e">>),
    Some(<<>>) }

\* The where values: absent and " A=b ".
Conditions == {None, Some(<<" ", "A", "=", "b", " ">>)}

TableSegments == {<<"t">>, <<"T">>}

Limits == {NoneNum} \cup {Some(n) : n \in {0, 1, 10000, 10001}}
Offsets == {NoneNum} \cup {Some(n) : n \in {0, 7}}

\* The JSON values an array body may hold: two objects, a number, an array.
BodyItems ==
  { JsonObject(<< <<"a", JsonNumber(1)>>, <<"b", JsonString(1)>> >>),
    JsonObject(<< <<"b", JsonString(3)>> >>),
    JsonNumber(7),
    JsonArray(<<>>) }

\* The bodies: the arrays of up to MaxBodyItems values, the values
\* themselves, a string and null.
Bodies ==
  {JsonArray(items) : items \in UNION {[1..n -> BodyItems] : n \in 0..MaxBodyItems}}
    \cup BodyItems \cup {JsonString(1), JsonNull, JsonObject(<<>>)}

NoParams ==
  [columns |-> None, conflict_action |-> None, conflict_target |-> None,
   distinct |-> None, where |-> None, group_by |-> None, order_by |-> None,
   limit |-> NoneNum, offset |-> NoneNum, returning_columns |-> None]

\* The GET requests: the parameters QueryParamsSelect reads.
SelectRequests ==
  { [method |-> "GET", table |-> t, body |-> JsonNull,
     query_string_params |->
       [NoParams EXCEPT !.columns = c, !.distinct = d, !.where = w,
                        !.group_by = g, !.order_by = o,
                        !.limit = l, !.offset = f]] :
      t \in TableSegments, c \in OptionalColumnStrings,
      d \in {None, Some(<<"a">>), Some(<<>>)}, w \in Conditions,
      g \in {None, Some(<<"a", ",">>)}, o \in {None, Some(<<"b">>)},
      l \in Limits, f \in Offsets }

\* The POST requests: the parameters QueryParamsInsert reads, and a body.
InsertRequests ==
  { [method |-> "POST", table |-> t, body |-> b,
     query_string_params |->
       [NoParams EXCEPT !.conflict_action = a, !.conflict_target = c,
                        !.returning_columns = r]] :
      t \in TableSegments, b \in Bodies, a \in ConflictActions,
      c \in OptionalColumnStrings, r \in OptionalColumnStrings }

\* The PUT requests: the parameters QueryParamsUpdate reads, and a body.
UpdateRequests ==
  { [method |-> "PUT", table |-> t, body |-> b,
     query_string_params |->
       [NoParams EXCEPT !.where = w, !.returning_columns = r]] :
      t \in TableSegments, b \in Bodies, w \in Conditions,
      r \in OptionalColumnStrings }

\* What a call of from_http_request leaves alone.
ParseOnly == UNCHANGED <<cacheVars, fkVars, insVars>>

InitParse ==
  /\ request \in SelectRequests \cup InsertRequests \cup UpdateRequests
  /\ parse_pc = "call"
  /\ parse_result = [kind |-> "-"]
  /\ CacheIdle
  /\ FkIdle
  /\ InsertIdle

\* One call of QueryParamsSelect::from_http_request.
call_select_from_http_request ==
  /\ parse_pc = "call"
  /\ request.method = "GET"
  /\ parse_result' = select_from_http_request(request.table, request.query_string_params)
  /\ parse_pc' = "done"
  /\ UNCHANGED request
  /\ ParseOnly

\* One call of QueryParamsInsert::from_http_request.
call_insert_from_http_request ==
  /\ parse_pc = "call"
  /\ request.method = "POST"
  /\ parse_result' =
       insert_from_http_request(request.table, request.body, request.query_string_params)
  /\ parse_pc' = "done"
  /\ UNCHANGED request
  /\ ParseOnly

\* One call of QueryParamsUpdate::from_http_request.
call_update_from_http_request ==
  /\ parse_pc = "call"
  /\ request.method = "PUT"
  /\ parse_result' =
       update_from_http_request(request.table, request.body, request.query_string_params)
  /\ parse_pc' = "done"
  /\ UNCHANGED request
  /\ ParseOnly

NextParse ==
  \/ call_select_from_http_request
  \/ call_insert_from_http_request
  \/ call_update_from_http_request

SpecParse == InitParse /\ [][NextParse]_vars

(***************************************************************************)
(* Claims about from_http_request                                          *)
(***************************************************************************)
Parsed == parse_pc = "done"
ParsedOk == Parsed /\ parse_result.kind = "Ok"
Rejected == Parsed /\ parse_result = ParseErr("INCORRECT_REQUEST_BODY")
IsInsert == request.method = "POST"
IsUpdate == request.method = "PUT"
IsSelect == request.method = "GET"
Given == request.query_string_params

\* The letters of a string, each in lower case.
LowerCased(str) ==
  LET Upper == <<"A", "D", "E", "P", "T", "U">>
      Lower == <<"a", "d", "e", "p", "t", "u">>
      Low(c) == IF \E k \in 1..Len(Upper) : Upper[k] = c
                  THEN Lower[CHOOSE k \in 1..Len(Upper) : Upper[k] = c]
                  ELSE c
  IN [i \in 1..Len(str) |-> Low(str[i])]

Desc == parse_result.params

\* C12: a QueryParamsInsert that from_http_request returned has
\* conflict_action and conflict_target both present or both absent, and when
\* present conflict_action is "nothing" or "update" and conflict_target is a
\* non-empty list without an empty string; a request with only one of the
\* two parameters, or with an action that (in any letter case) is neither
\* "nothing" nor "update", fails with INCORRECT_REQUEST_BODY.
C12_ConflictParams ==
  (Parsed /\ IsInsert) =>
    /\ parse_result.kind = "Ok" =>
         /\ Desc.conflict_action.some <=> Desc.conflict_target.some
         /\ Desc.conflict_action.some =>
              /\ Desc.conflict_action.v \in {Nothing, Update}
              /\ Desc.conflict_target.v # <<>>
              /\ \A i \in 1..Len(Desc.conflict_target.v) :
                   Desc.conflict_target.v[i] # <<>>
    /\ (Given.conflict_action.some # Given.conflict_target.some) => Rejected
    /\ (/\ Given.conflict_action.some
        /\ LowerCased(Given.conflict_action.v) \notin {Nothing, Update}) => Rejected

\* C12 witness: an insert request with conflict_action=UPDATE and
\* conflict_target=" A ,b" was parsed into the action "update" and the
\* target [a, b].
C12_Witness ==
  /\ ParsedOk /\ IsInsert
  /\ Given.conflict_action = Some(<<"U", "P", "D", "A", "T", "E">>)
  /\ Desc.conflict_action = Some(Update)
  /\ Desc.conflict_target = Some(<< <<"a">>, <<"b">> >>)

\* C13: the insert and the update parser fail with INCORRECT_REQUEST_BODY
\* when returning_columns is the empty string, and in every descriptor they
\* return returning_columns is absent or a non-empty list.
C13_ReturningColumns ==
  (Parsed /\ (IsInsert \/ IsUpdate)) =>
    /\ Given.returning_columns = Some(<<>>) => Rejected
    /\ parse_result.kind = "Ok" =>
         \/ ~Desc.returning_columns.some
         \/ Desc.returning_columns.v # <<>>

\* C13 witness: an update request whose body is a JSON object was rejected
\* for its empty returning_columns.
C13_Witness ==
  /\ Rejected /\ IsUpdate
  /\ request.body.json = "object"
  /\ Given.returning_columns = Some(<<>>)

IsArrayOfObjects(val) ==
  /\ val.json = "array"
  /\ \A i \in 1..Len(val.items) : val.items[i].json = "object"

\* C14: the update parser fails with INCORRECT_REQUEST_BODY for every body
\* that is not a JSON object, the insert parser for every body that is not a
\* JSON array of JSON objects; on success the descriptor's rows (insert) or
\* column_values (update) are the body's objects, in order and unchanged.
C14_BodyShape ==
  Parsed =>
    /\ (IsUpdate /\ request.body.json # "object") => Rejected
    /\ (IsInsert /\ ~IsArrayOfObjects(request.body)) => Rejected
    /\ (IsInsert /\ parse_result.kind = "Ok") =>
         /\ Len(Desc.rows) = Len(request.body.items)
         /\ \A i \in 1..Len(Desc.rows) : Desc.rows[i] = request.body.items[i].map
    /\ (IsUpdate /\ parse_result.kind = "Ok") =>
         Desc.column_values = request.body.map

\* C14 witness: an insert request with a body of two different objects was
\* parsed into the two rows.
C14_Witness ==
  /\ ParsedOk /\ IsInsert
  /\ Len(Desc.rows) = 2
  /\ Desc.rows[1] = << <<"b", JsonString(3)>> >>
  /\ Desc.rows[2] = << <<"a", JsonNumber(1)>>, <<"b", JsonString(1)>> >>

\* C15: a QueryParamsSelect that from_http_request returned has the limit
\* the caller supplied, or 10000 without one, and the offset the caller
\* supplied, or 0 without one, each whatever the other is.
C15_LimitOffsetDefaults ==
  (ParsedOk /\ IsSelect) =>
    /\ Desc.limit = IF Given.limit.some THEN Given.limit.v ELSE 10000
    /\ Desc.offset = IF Given.offset.some THEN Given.offset.v ELSE 0

\* C15 witness: a select request with an offset and no limit was parsed
\* into limit 10000 and the offset supplied.
C15_Witness ==
  /\ ParsedOk /\ IsSelect
  /\ Given.limit = NoneNum
  /\ Given.offset = Some(7)
  /\ Desc.limit = 10000
  /\ Desc.offset = 7

(***************************************************************************)
(* Part E: the recursion of from_query_columns, one activation at a time   *)
(*                                                                         *)
(* The same function as in Part B, with its call stack as state: a frame   *)
(* is one activation, a nested call pushes a frame and a return pops one.  *)
(***************************************************************************)
MaxDepth == 5   \* activations of from_query_columns nested in one another

\* An activation that has just been called.
Frame(table, columns) ==
  [table |-> table, columns |-> columns, pc |-> "start", grouped |-> EmptyMap,
   stats |-> <<>>, i |-> 0, acc |-> <<>>, err |-> "-"]

TopFrame == fk_stack[Len(fk_stack)]
FramesBelow == SubSeq(fk_stack, 1, Len(fk_stack) - 1)

\* The innermost activation returns `result`: to the caller of the outermost
\* call, or to the activation below, which is at the stat whose nested call
\* this was (the if/else-if on nested_fk_result and the fall through).
fk_return(result) ==
  IF FramesBelow = <<>>
    THEN /\ fk_stack' = <<>>
         /\ fk_result' = result
         /\ fk_pc' = "done"
    ELSE LET parent == FramesBelow[Len(FramesBelow)]
             stat == parent.stats[parent.i]
             nested == IF result.kind = "OkSome" THEN NestedSome(result.refs)
                                                 ELSE NestedNone
             ref == ForeignKeyReference(parent.grouped[stat.column_name][2],
                      stat.column_name, stat.foreign_key_table,
                      stat.foreign_key_columns, nested)
             resumed == IF result.kind = "Err"
                          THEN [parent EXCEPT !.pc = "failed", !.err = result.err]
                          ELSE [parent EXCEPT !.i = @ + 1, !.acc = Append(@, ref)]
         IN /\ fk_stack' = [FramesBelow EXCEPT ![Len(FramesBelow)] = resumed]
            /\ UNCHANGED <<fk_result, fk_pc>>

\* The outermost call of from_query_columns.
fk_call ==
  /\ fk_pc = "call"
  /\ fk_pc' = "run"
  /\ fk_stack' = <<Frame(fk_table, fk_columns_in)>>
  /\ fk_depth' = 1
  /\ fk_steps' = 1
  /\ UNCHANGED <<fk_table, fk_columns_in, fetch_fails, fk_result>>
  /\ FkOnly

\* An activation from its entry to the fetch of the stats: the dotted
\* columns are collected, sorted, deduplicated and grouped; without any the
\* activation returns Ok(None), and it returns the error of a failed fetch.
fk_begin ==
  /\ fk_pc = "run"
  /\ TopFrame.pc = "start"
  /\ LET fk_columns == dedup(sort_unstable(SelectSeq(TopFrame.columns, is_fk_column)))
         stats == get_column_stats(TopFrame.table)
     IN IF fk_columns = <<>> THEN fk_return(OkNone)
        ELSE IF ~stats.ok THEN fk_return(Err(TopFrame.table))
        ELSE /\ fk_stack' = Append(FramesBelow,
                   [TopFrame EXCEPT !.pc = "stats",
                                    !.grouped = group_columns(fk_columns, EmptyMap),
                                    !.stats = stats.stats,
                                    !.i = 1])
             /\ UNCHANGED <<fk_result, fk_pc>>
  /\ fk_steps' = fk_steps + 1
  /\ UNCHANGED <<fk_table, fk_columns_in, fetch_fails, fk_depth>>
  /\ FkOnly

\* The filter_map closure on the next stat: a stat that is no foreign key or
\* matches no group is skipped; a match with a dotted child column calls
\* from_query_columns on the referred table; any other match is a reference
\* with nested_fks = None.
fk_stat ==
  /\ fk_pc = "run"
  /\ TopFrame.pc = "stats"
  /\ TopFrame.i <= Len(TopFrame.stats)
  /\ LET stat == TopFrame.stats[TopFrame.i]
     IN IF ~stat.is_foreign_key \/ stat.column_name \notin DOMAIN TopFrame.grouped
          THEN /\ fk_stack' = Append(FramesBelow, [TopFrame EXCEPT !.i = @ + 1])
               /\ UNCHANGED fk_depth
          ELSE LET child_col_vec_match == TopFrame.grouped[stat.column_name][1]
                   original_refs == TopFrame.grouped[stat.column_name][2]
               IN IF \E k \in 1..Len(child_col_vec_match) :
                       contains_dot(child_col_vec_match[k])
                    THEN /\ Len(fk_stack) < MaxDepth
                         /\ fk_stack' = Append(fk_stack,
                              Frame(stat.foreign_key_table, child_col_vec_match))
                         /\ fk_depth' = IF Len(fk_stack) + 1 > fk_depth
                                          THEN Len(fk_stack) + 1 ELSE fk_depth
                    ELSE /\ fk_stack' = Append(FramesBelow,
                              [TopFrame EXCEPT
                                 !.i = @ + 1,
                                 !.acc = Append(@, ForeignKeyReference(original_refs,
                                           stat.column_name, stat.foreign_key_table,
                                           stat.foreign_key_columns, NestedNone))])
                         /\ UNCHANGED fk_depth
  /\ fk_steps' = fk_steps + 1
  /\ UNCHANGED <<fk_table, fk_columns_in, fetch_fails, fk_result, fk_pc>>
  /\ FkOnly

\* All stats are done: the activation returns Ok(Some(references)).
fk_collect ==
  /\ fk_pc = "run"
  /\ TopFrame.pc = "stats"
  /\ TopFrame.i > Len(TopFrame.stats)
  /\ fk_return(OkSome(TopFrame.acc))
  /\ fk_steps' = fk_steps + 1
  /\ UNCHANGED <<fk_table, fk_columns_in, fetch_fails, fk_depth>>
  /\ FkOnly

\* A nested call failed: collect stops at the error and the activation
\* returns it.
fk_fail ==
  /\ fk_pc = "run"
  /\ TopFrame.pc = "failed"
  /\ fk_return(Err(TopFrame.err))
  /\ fk_steps' = fk_steps + 1
  /\ UNCHANGED <<fk_table, fk_columns_in, fetch_fails, fk_depth>>
  /\ FkOnly

NextFkSteps ==
  \/ fk_call
  \/ fk_begin
  \/ fk_stat
  \/ fk_collect
  \/ fk_fail

SpecFkSteps == InitFk /\ [][NextFkSteps]_vars

\* The activations return what from_query_columns of Part B returns.
StepsAgree == Done => fk_result = from_query_columns(fk_table, fk_columns_in)

Segments(col) == DotCount(col) + 1

\* The number of dot-separated segments of the longest requested column.
LongestSegments ==
  IF fk_columns_in = <<>> THEN 0
  ELSE CHOOSE n \in {Segments(c) : c \in SeqRange(fk_columns_in)} :
         \A c \in SeqRange(fk_columns_in) : Segments(c) <= n

RECURSIVE Power(_, _)
Power(base, exp) == IF exp = 0 THEN 1 ELSE base * Power(base, exp - 1)

RECURSIVE SumOfPowers(_, _)
SumOfPowers(base, top) ==
  IF top < 0 THEN 0 ELSE Power(base, top) + SumOfPowers(base, top - 1)

Largest(nums) == CHOOSE n \in nums : \A m \in nums : m <= n

\* The steps a call can take when its activations nest no deeper than the
\* segments of the longest requested column: an activation begins, looks at
\* each stat of its table and returns, and calls one activation at most for
\* each foreign key of its table.
StepLimit ==
  LET most_stats == Largest({Len(Schema[t]) : t \in DOMAIN Schema})
      most_fks == Largest({Len(FkStats(t)) : t \in DOMAIN Schema})
      levels == IF LongestSegments = 0 THEN 1 ELSE LongestSegments
  IN 1 + SumOfPowers(most_fks, levels - 1) * (most_stats + 2)

\* While the call runs, its innermost activation is at one of its steps and
\* is below the depth at which a nested call would be held up.
CanStep ==
  /\ fk_stack # <<>>
  /\ TopFrame.pc \in {"start", "stats", "failed"}
  /\ Len(fk_stack) < MaxDepth

\* C18: every call of from_query_columns returns, also on tables whose
\* foreign keys form a cycle: an activation that has not returned can take
\* its next step, and the steps of a call are never more than StepLimit. The
\* activations nested in one another, the outermost included, are never more
\* than the dot-separated segments of the longest requested column (the
\* nested ones never more for an empty column list).
C18_TerminatesWithinDepth ==
  /\ fk_pc = "run" => CanStep
  /\ fk_steps <= StepLimit
  /\ fk_depth - 1 <= LongestSegments
  /\ fk_columns_in # <<>> => fk_depth <= LongestSegments

\* C18 witness: the call for p.p.p on p_table, whose foreign key p refers to
\* p_table itself, has returned after one nested activation.
C18_Witness ==
  /\ fk_pc = "done"
  /\ fk_table = "p_table"
  /\ fk_columns_in = << <<"p", ".", "p", ".", "p">> >>
  /\ fk_depth = 2
  /\ fk_result.kind = "OkSome"

====
